---- MODULE Spec2Model ----
(***************************************************************************)
(* WhatsApp -> OpenAI Assistant relay (src/app.py).                        *)
(*                                                                         *)
(* Every POST /webhook request is handled by one handler (a Flask worker   *)
(* thread).  The handlers share the process-wide dict `threads`.  A step   *)
(* of a handler is one outbound HTTP call (request and response) together  *)
(* with the local code that follows it up to the next outbound call, so    *)
(* that handlers interleave exactly where the code waits for the network.  *)
(***************************************************************************)
EXTENDS Integers, Sequences, FiniteSets, TLC

\* ------------------------------------------------------------------ bounds
\* Longest result list the message-list endpoint returns in the model.
MaxList == 2

\* -------------------------------------------------------- program constants
\* A polling loop with one iteration too many.
max_attempts_more == 10 + 1

\* run_assistant: max_attempts
max_attempts == 10

Handlers == {1, 2}
Users == {"111", "222"}

\* threads[key] when the dict has no entry for the key
NoThread == 0

\* The provider answers every successful create call with an id it has not
\* issued before; the model names the id after the call: the n-th successful
\* create call of handler h.
NewThreadId(h, n) == 100 * h + n

\* Run statuses of the provider.
Statuses == {"queued", "in_progress", "completed", "failed", "cancelled", "expired"}

\* Texts of the items of a message list; "" is a message with an empty text.
Texts == {"", "Hi there"}

RECURSIVE SeqsUpTo(_, _)
SeqsUpTo(S, n) ==
    IF n = 0 THEN {<<>>}
    ELSE LET shorter == SeqsUpTo(S, n - 1)
         IN  shorter \cup {Append(s, x) : s \in {t \in shorter : Len(t) = n - 1}, x \in S}

\* The lists the message-list endpoint may answer with (newest first).
ResultLists == SeqsUpTo(Texts, MaxList)

\* ------------------------------------------------------------------ inputs
\* A JSON object is a record of its keys. A JSON list is List(items). NotDict
\* is a JSON null, number or boolean: not an object, and not iterable. A
\* string acts as NotDict where the code expects an object; where the code
\* iterates, a string is the list of its characters, none of them an object.
\* StatusesText is a string or list for which `'statuses' in value` is true.
EmptyDict == [k \in {} |-> TRUE]
NotDict == [notdict |-> TRUE]
StatusesText == [notdict |-> TRUE, statuses |-> TRUE]
List(items) == [list |-> items]
IsList(x) == "list" \in DOMAIN x
IsDict(x) == "notdict" \notin DOMAIN x /\ ~IsList(x)

\* `for item in x`: a list gives its items, an object its keys (strings, not
\* objects); anything else raises TypeError.
Iterable(x) == IsList(x) \/ IsDict(x)
Items(x) ==
    IF IsList(x) THEN x.list ELSE [i \in 1..Cardinality(DOMAIN x) |-> NotDict]

Min(S) == CHOOSE x \in S : \A y \in S : x <= y

\* dict.get(key, default)
Get(d, k, default) == IF k \in DOMAIN d THEN d[k] ELSE default

ExpectedObject == "whatsapp_business_account"

Msg(u) == [from |-> u, type |-> "text", text |-> [body |-> "Hello"]]
MsgNoFrom == [type |-> "text", text |-> [body |-> "Hello"]]
MsgEmptyFrom == [from |-> "", type |-> "text", text |-> [body |-> "Hello"]]
MsgBadText(u) == [from |-> u, type |-> "text", text |-> NotDict]
MsgNoFromBadText == [type |-> "text", text |-> NotDict]

Messages(msgs) == [messages |-> List(msgs)]
MessagesContacts(msgs, contacts) == [messages |-> List(msgs), contacts |-> contacts]
Contact(wa_id, profile) == [wa_id |-> wa_id, profile |-> profile]

Change(field, value) == [field |-> field, value |-> value]
Entry(changes) == [id |-> "0", changes |-> List(changes)]
Notification(object, msgs) ==
    [object |-> object,
     entry |-> List(<<Entry(<<Change("messages", Messages(msgs))>>)>>)]

\* The bodies of the POST /webhook requests the model feeds to the handlers.
\* kind "invalid": request.get_json() raises; kind "null": it returns None.
RequestBodies ==
    {[kind |-> "invalid", data |-> EmptyDict],
     [kind |-> "null", data |-> EmptyDict],
     [kind |-> "json", data |-> EmptyDict],
     [kind |-> "json", data |-> NotDict],
     [kind |-> "json", data |-> [entry |-> List(<<Entry(<<Change("messages", Messages(<<Msg("111")>>))>>)>>)]],
     [kind |-> "json", data |-> Notification("page", <<Msg("111")>>)],
     [kind |-> "json", data |-> Notification(ExpectedObject, <<Msg("111")>>)],
     [kind |-> "json", data |-> Notification(ExpectedObject, <<Msg("222")>>)],
     [kind |-> "json", data |-> Notification(ExpectedObject, <<MsgNoFrom, MsgEmptyFrom, NotDict>>)],
     [kind |-> "json", data |->
        Notification(ExpectedObject, <<MsgBadText("111"), MsgNoFromBadText, MsgNoFrom>>)],
     [kind |-> "json", data |->
        [object |-> ExpectedObject,
         entry |-> List(<<Entry(<<
            Change("messages", MessagesContacts(<<Msg("111")>>, NotDict)),
            Change("messages", MessagesContacts(<<Msg("111")>>, List(<<NotDict>>))),
            Change("messages", MessagesContacts(<<Msg("111")>>,
                                   List(<<Contact("222", NotDict), Contact("111", NotDict)>>)))>>)>>)]],
     [kind |-> "json", data |-> [object |-> ExpectedObject, entry |-> NotDict]],
     [kind |-> "json", data |->
        [object |-> ExpectedObject,
         entry |-> List(<<Entry(<<Change("messages", [messages |-> NotDict]),
                                 Change("messages", Messages(<<Msg("111")>>))>>)>>)]],
     [kind |-> "json", data |->
        [object |-> ExpectedObject,
         entry |-> List(<<Entry(<<Change("messages", NotDict),
                                 Change("messages", Messages(<<Msg("111")>>))>>)>>)]],
     [kind |-> "json", data |->
        [object |-> ExpectedObject,
         entry |-> List(<<
            Entry(<<Change("messages", StatusesText),
                    Change("messages", MessagesContacts(<<Msg("111")>>,
                               List(<<Contact("222", NotDict),
                                      Contact("111", [name |-> "Ann"]),
                                      NotDict>>))),
                    Change("messages", [statuses |-> List(<<EmptyDict>>),
                                        messages |-> List(<<Msg("222")>>)]),
                    Change("account_update", Messages(<<Msg("222")>>))>>),
            Entry(<<Change("messages", Messages(<<Msg("111")>>))>>),
            NotDict,
            Entry(<<Change("messages", Messages(<<Msg("222")>>))>>)>>)]]}

\* --------------------------------------------------------- pure functions
\* Optional[str]: None is <<>>, the string s is <<s>>.
None == <<>>
Some(s) == <<s>>

\* Python truth value of an Optional[str]: None and "" are false.
Truthy(opt) == opt # None /\ opt # Some("")

\* The values process_message may use as a key of `threads`.
Keys == {None, Some("")} \cup {Some(u) : u \in Users}

\* A process_message without the test of the sender id.
NoSender_never(phone) == FALSE

\* process_message: `if not phone_id:`
NoSender(phone) == ~Truthy(phone)

\* A handle_webhook that tests the presence of 'object' but not its value.
Ignored_anyObject(body) ==
    \/ body.kind = "null"
    \/ ~IsDict(body.data)
    \/ DOMAIN body.data = {}
    \/ "object" \notin DOMAIN body.data

\* handle_webhook: the request is acknowledged without being processed.
Ignored(body) ==
    \/ body.kind = "null"
    \/ ~IsDict(body.data)
    \/ DOMAIN body.data = {}
    \/ "object" \notin DOMAIN body.data
    \/ body.data.object # ExpectedObject

\* The work handle_webhook's nested loops go through, in order: an item
\* "msg" is a call process_message(message, contacts), an item "raise" is an
\* exception raised by the loops themselves (it ends them).
MsgItem(m, contacts) == [op |-> "msg", message |-> m, contacts |-> contacts]
RaiseItem == [op |-> "raise", message |-> NotDict, contacts |-> NotDict]

\* A handle_webhook without the test for status updates.
ChangeWork_noSkip(change) ==
    IF ~IsDict(change) THEN <<RaiseItem>>
    ELSE IF Get(change, "field", "") = "messages"
    THEN LET value == Get(change, "value", EmptyDict)
             msgs == Get(value, "messages", List(<<>>))
             contacts == Get(value, "contacts", List(<<>>))
         IN  IF ~IsDict(value) \/ ~Iterable(msgs) THEN <<RaiseItem>>
             ELSE [i \in 1..Len(Items(msgs)) |-> MsgItem(Items(msgs)[i], contacts)]
    ELSE <<>>

\* handle_webhook: the body of the loop over the changes. `'statuses' in
\* value` is true of an object with that key and of a string or list that
\* contains it; of any other value that is not an object it raises, or
\* `value.get` does.
ChangeWork(change) ==
    IF ~IsDict(change) THEN <<RaiseItem>>
    ELSE IF Get(change, "field", "") = "messages"
    THEN LET value == Get(change, "value", EmptyDict)
             msgs == Get(value, "messages", List(<<>>))
             contacts == Get(value, "contacts", List(<<>>))
         IN  IF "statuses" \in DOMAIN value THEN <<>>
             ELSE IF ~IsDict(value) \/ ~Iterable(msgs) THEN <<RaiseItem>>
             ELSE [i \in 1..Len(Items(msgs)) |-> MsgItem(Items(msgs)[i], contacts)]
    ELSE <<>>

RECURSIVE ChangesWork(_)
ChangesWork(changes) ==
    IF changes = <<>> THEN <<>>
    ELSE ChangeWork(Head(changes)) \o ChangesWork(Tail(changes))

EntryWork(entry) ==
    LET changes == Get(entry, "changes", List(<<>>))
    IN  IF ~IsDict(entry) \/ ~Iterable(changes) THEN <<RaiseItem>>
        ELSE ChangesWork(Items(changes))

RECURSIVE EntriesWork(_)
EntriesWork(entries) ==
    IF entries = <<>> THEN <<>>
    ELSE EntryWork(Head(entries)) \o EntriesWork(Tail(entries))

Work(data) ==
    LET entries == Get(data, "entry", List(<<>>))
    IN  IF ~Iterable(entries) THEN <<RaiseItem>> ELSE EntriesWork(Items(entries))

\* process_message: `message.get('from')` and `message.get('text', {}).get(
\* 'body', '')` raise for a message, or a text, that is not an object.
MessageRaises(m) == ~IsDict(m) \/ ~IsDict(Get(m, "text", EmptyDict))

\* process_message: the loop over contacts raises. It stops at the first
\* contact of the sender, whose profile it reads.
ContactsRaise(contacts, phone) ==
    IF ~Iterable(contacts) THEN TRUE
    ELSE LET cs == Items(contacts)
             stops == {i \in 1..Len(cs) :
                          \/ ~IsDict(cs[i])
                          \/ "wa_id" \in DOMAIN cs[i] /\ Some(cs[i].wa_id) = phone}
         IN  /\ stops # {}
             /\ \/ ~IsDict(cs[Min(stops)])
                \/ ~IsDict(Get(cs[Min(stops)], "profile", EmptyDict))

\* process_message: message.get('from')
PhoneId(m) == IF "from" \in DOMAIN m THEN Some(m.from) ELSE None

\* process_message: message.get('text', {}).get('body', '')
MessageText(m) == Get(Get(m, "text", EmptyDict), "body", "")

\* A run_assistant that keeps polling an expired run.
IsFailedStatus_partial(status) == status \in {"failed", "cancelled"}

\* run_assistant: statuses that end the polling without a result
IsFailedStatus(status) == status \in {"failed", "cancelled", "expired"}

\* run_assistant: the value returned for a fetched message list
FirstText(messages) == IF messages # <<>> THEN Some(messages[1]) ELSE None

\* A send_message called with its arguments in the wrong order.
SendRequest_swapped(to, message) == [to |-> message, body |-> to]

\* send_message: the recipient and the text of the request it posts
SendRequest(to, message) == [to |-> to, body |-> message]

\* A handle_webhook whose except clause reports the error to the provider.
ExceptResponse_500 == [status |-> 500, body |-> "Internal Server Error"]

\* handle_webhook: the answers of its return statements
OkResponse == [status |-> 200, body |-> "OK"]
ExceptResponse == [status |-> 200, body |-> "OK"]
NoResponse == [status |-> 0, body |-> ""]

\* Outcomes of an outbound HTTP call as the code sees them.
HttpOutcomes == {"ok", "error"}
CreateOutcomes == {"ok", "network_error", "http_error", "no_id"}

\* ------------------------------------------------------------------- state
VARIABLES
    threads,      \* the dict `threads`: key -> thread id (NoThread: no entry)
    next_id,      \* provider: number of threads created for each handler
    created,      \* history: the thread ids created for each key
    pc,           \* handler: where it stands
    request,      \* handler: the body of the request it handles
    queue,        \* handler: the work handle_webhook has still to do
    phone_id,     \* process_message: phone_id
    message_text, \* process_message: message_text
    thread_id,    \* process_message: thread_id
    attempt,      \* run_assistant: iterations of the polling loop done
    ai_response,  \* process_message: ai_response
    response,     \* handler: the HTTP response of handle_webhook
    log,          \* history of the current process_message invocation
    verify,       \* the last GET /webhook request and its response
    handed        \* history: the messages handle_webhook passed to process_message

vars == <<threads, next_id, created, pc, request, queue, phone_id, message_text,
          thread_id, attempt, ai_response, response, log, verify, handed>>

NoCalls == [create |-> 0, append |-> 0, run |-> 0, check |-> 0, fetch |-> 0, send |-> 0]

\* log.resolve: "none", "hit" (entry found), or the outcome of the create call
\* log.appended: the append requests issued (thread and content)
\* log.term_at: the number of the first status check answered with a terminal status
\* log.fetched_from: the thread whose messages the message-list call asked for
\* log.listed: "none", or whether the list the message-list call answered
\*   with was "empty" or "nonempty"; log.first: the text of its first item
\* log.sent: the send-message requests issued
\* log.returned: run_assistant has returned (ai_response holds its value)
\* log.raised: the function that raised an exception into process_message
FreshLog ==
    [calls |-> NoCalls, resolve |-> "none", append |-> "none", appended |-> <<>>,
     run |-> "none",
     status |-> "none", term_at |-> 0, fetch |-> "none", fetched_from |-> NoThread, listed |-> "none", first |-> None,
     sent |-> <<>>, send |-> "none", returned |-> FALSE, raised |-> "none"]

\* No GET /webhook request has been answered yet.
NoVerify == [mode |-> None, token |-> None, challenge |-> None, response |-> NoResponse]

Init ==
    /\ threads = [k \in Keys |-> NoThread]
    /\ next_id = [h \in Handlers |-> 0]
    /\ created = [k \in Keys |-> {}]
    /\ pc = [h \in Handlers |-> "idle"]
    /\ request = [h \in Handlers |-> [kind |-> "null", data |-> EmptyDict]]
    /\ queue = [h \in Handlers |-> <<>>]
    /\ phone_id = [h \in Handlers |-> None]
    /\ message_text = [h \in Handlers |-> ""]
    /\ thread_id = [h \in Handlers |-> NoThread]
    /\ attempt = [h \in Handlers |-> 0]
    /\ ai_response = [h \in Handlers |-> None]
    /\ response = [h \in Handlers |-> NoResponse]
    /\ log = [h \in Handlers |-> FreshLog]
    /\ verify = NoVerify
    /\ handed = [h \in Handlers |-> <<>>]

\* A process_message that looks the thread up under one key for every sender.
UserId_constant(phone) == Some("")

\* process_message: the user_id it passes to get_or_create_thread
UserId(phone) == phone

\* A get_or_create_thread that never finds the entry it stored.
InThreads_never(user) == FALSE

\* get_or_create_thread: `user_id in threads`
InThreads(user) == threads[user] # NoThread

\* A get_or_create_thread that stores the entry before it checks the answer.
ThreadsAfterCreate_early(user, outcome, id) == [threads EXCEPT ![user] = id]

\* A get_or_create_thread that keeps the entry another handler stored.
ThreadsAfterCreate_keep(user, outcome, id) ==
    IF outcome = "ok" /\ threads[user] = NoThread
    THEN [threads EXCEPT ![user] = id]
    ELSE threads

\* get_or_create_thread: the dict after the create call answered
ThreadsAfterCreate(user, outcome, id) ==
    IF outcome = "ok" THEN [threads EXCEPT ![user] = id] ELSE threads

\* -------------------------------------------------------------- operations
\* handle_webhook between two messages: with no work left the loops end and
\* line 222 answers; an exception raised by the loops is answered by line 226;
\* otherwise the next message is handed to process_message.
NextPc(q) == IF q = <<>> \/ Head(q).op = "raise" THEN "done" ELSE "loop"
NextResponse(q) ==
    IF q = <<>> THEN OkResponse
    ELSE IF Head(q).op = "raise" THEN ExceptResponse
    ELSE NoResponse

\* process_message returns (or its except clause swallowed an exception)
\* while q is the work left.
Return(h, q) ==
    /\ pc' = [pc EXCEPT ![h] = NextPc(q)]
    /\ response' = [response EXCEPT ![h] = NextResponse(q)]

\* A process_message without its except clause: the exception reaches
\* handle_webhook, whose except clause answers and ends the loops.
AfterRaise_propagates(h, q) ==
    /\ pc' = [pc EXCEPT ![h] = "done"]
    /\ response' = [response EXCEPT ![h] = ExceptResponse]

\* process_message: `except Exception` logs the exception and the function
\* returns, while q is the work left.
AfterRaise(h, q) == Return(h, q)

Goto(h, label) ==
    /\ pc' = [pc EXCEPT ![h] = label]
    /\ UNCHANGED response

\* POST /webhook arrives: get_json, the discriminator test, and the walk of
\* the payload that yields the messages to process.
handle_webhook(h) ==
    /\ pc[h] = "idle"
    /\ \E body \in RequestBodies :
        /\ request' = [request EXCEPT ![h] = body]
        /\ IF body.kind = "invalid"
           THEN /\ response' = [response EXCEPT ![h] = ExceptResponse]
                /\ pc' = [pc EXCEPT ![h] = "done"]
                /\ UNCHANGED queue
           ELSE IF Ignored(body)
           THEN /\ response' = [response EXCEPT ![h] = OkResponse]
                /\ pc' = [pc EXCEPT ![h] = "done"]
                /\ UNCHANGED queue
           ELSE /\ queue' = [queue EXCEPT ![h] = Work(body.data)]
                /\ Return(h, Work(body.data))
    /\ UNCHANGED <<verify, handed, threads, next_id, created, phone_id, message_text, thread_id,
                   attempt, ai_response, log>>

\* process_message up to its first outbound call: the sender id and the
\* text, the test of the sender id, the loop over the contacts, and the
\* lookup of get_or_create_thread.
process_message(h) ==
    /\ pc[h] = "loop"
    /\ LET m == Head(queue[h]).message
           contacts == Head(queue[h]).contacts
           rest == Tail(queue[h])
           phone == IF IsDict(m) THEN PhoneId(m) ELSE None
       IN  /\ queue' = [queue EXCEPT ![h] = rest]
           /\ phone_id' = [phone_id EXCEPT ![h] = phone]
           /\ message_text' = [message_text EXCEPT ![h] =
                                  IF MessageRaises(m) THEN "" ELSE MessageText(m)]
           /\ attempt' = [attempt EXCEPT ![h] = 0]
           /\ ai_response' = [ai_response EXCEPT ![h] = None]
           /\ IF MessageRaises(m) \/ (~NoSender(phone) /\ ContactsRaise(contacts, phone))
              THEN /\ log' = [log EXCEPT ![h] = [FreshLog EXCEPT !.raised = "process_message"]]
                   /\ thread_id' = [thread_id EXCEPT ![h] = NoThread]
                   /\ AfterRaise(h, rest)
              ELSE IF NoSender(phone)
              THEN /\ log' = [log EXCEPT ![h] = FreshLog]
                   /\ thread_id' = [thread_id EXCEPT ![h] = NoThread]
                   /\ Return(h, rest)
              ELSE IF InThreads(UserId(phone))
              THEN /\ log' = [log EXCEPT ![h] = [FreshLog EXCEPT !.resolve = "hit"]]
                   /\ thread_id' = [thread_id EXCEPT ![h] = threads[UserId(phone)]]
                   /\ Goto(h, "append")
              ELSE /\ log' = [log EXCEPT ![h] = FreshLog]
                   /\ thread_id' = [thread_id EXCEPT ![h] = NoThread]
                   /\ Goto(h, "create")
    /\ handed' = [handed EXCEPT ![h] = Append(@, Head(queue[h]).message)]
    /\ UNCHANGED <<verify, threads, next_id, created, request>>

\* get_or_create_thread after a miss: POST /threads and the store.
get_or_create_thread(h) ==
    /\ pc[h] = "create"
    /\ \E outcome \in CreateOutcomes :
        LET user == UserId(phone_id[h])
            id == NewThreadId(h, next_id[h] + 1)
        IN  /\ threads' = ThreadsAfterCreate(user, outcome, id)
            /\ IF outcome = "ok"
               THEN /\ next_id' = [next_id EXCEPT ![h] = @ + 1]
                    /\ created' = [created EXCEPT ![phone_id[h]] = @ \cup {id}]
                    /\ thread_id' = [thread_id EXCEPT ![h] = id]
                    /\ log' = [log EXCEPT ![h] = [@ EXCEPT !.calls.create = @ + 1,
                                                            !.resolve = outcome]]
                    /\ Goto(h, "append")
               ELSE /\ UNCHANGED <<next_id, created, thread_id>>
                    /\ log' = [log EXCEPT ![h] = [@ EXCEPT !.calls.create = @ + 1,
                                                            !.resolve = outcome,
                                                            !.raised = "get_or_create_thread"]]
                    /\ AfterRaise(h, queue[h])
    /\ UNCHANGED <<verify, handed, request, queue, phone_id, message_text, attempt, ai_response>>

\* An add_message_to_thread that reports success whatever the answer.
AddMessageResult_true(outcome) == TRUE

\* add_message_to_thread: its boolean result for the outcome of its call
AddMessageResult(outcome) == outcome = "ok"

\* add_message_to_thread: the thread and the content of the request it posts
AppendRequest(thread, message) == [thread |-> thread, content |-> message]

\* add_message_to_thread, and process_message's test of its result.
add_message_to_thread(h) ==
    /\ pc[h] = "append"
    /\ \E outcome \in HttpOutcomes :
        /\ log' = [log EXCEPT ![h] =
                      [@ EXCEPT !.calls.append = @ + 1,
                                !.append = outcome,
                                !.appended = Append(@, AppendRequest(thread_id[h], message_text[h]))]]
        /\ IF AddMessageResult(outcome) THEN Goto(h, "run") ELSE Return(h, queue[h])
    /\ UNCHANGED <<verify, handed, threads, next_id, created, request, queue, phone_id,
                   message_text, thread_id, attempt, ai_response>>

\* A process_message that relays whatever run_assistant returned.
SendsReply_always(result) == TRUE

\* process_message: `if ai_response:`
SendsReply(result) == Truthy(result)

\* process_message after run_assistant returned `result`
AfterRun(h, result) ==
    /\ ai_response' = [ai_response EXCEPT ![h] = result]
    /\ IF SendsReply(result) THEN Goto(h, "send") ELSE Return(h, queue[h])

\* A run_assistant that polls whatever the job-start call answered.
RunStarted_always(outcome) == TRUE

\* run_assistant: `response.raise_for_status()` after POST .../runs
RunStarted(outcome) == outcome = "ok"

\* run_assistant: POST .../runs
run_assistant_start(h) ==
    /\ pc[h] = "run"
    /\ \E outcome \in HttpOutcomes :
        IF RunStarted(outcome)
        THEN /\ log' = [log EXCEPT ![h] = [@ EXCEPT !.calls.run = @ + 1,
                                                     !.run = outcome]]
             /\ attempt' = [attempt EXCEPT ![h] = 0]
             /\ Goto(h, "poll")
             /\ UNCHANGED ai_response
        ELSE /\ log' = [log EXCEPT ![h] = [@ EXCEPT !.calls.run = @ + 1,
                                                     !.run = outcome,
                                                     !.returned = TRUE]]
             /\ AfterRun(h, None)
             /\ UNCHANGED attempt
    /\ UNCHANGED <<verify, handed, threads, next_id, created, request, queue, phone_id,
                   message_text, thread_id>>

\* run_assistant: one iteration of the polling loop, GET .../runs/{run_id}
run_assistant_poll(h) ==
    /\ pc[h] = "poll"
    /\ \E status \in Statuses \cup {"error"} :
        LET n == log[h].calls.check + 1
            terminal == status \in {"completed", "failed", "cancelled", "expired"}
            logged == [log[h] EXCEPT !.calls.check = n,
                                     !.status = status,
                                     !.term_at = IF @ = 0 /\ terminal THEN n ELSE @]
        IN  IF status = "error"
            THEN /\ log' = [log EXCEPT ![h] = [logged EXCEPT !.returned = TRUE]]
                 /\ AfterRun(h, None)
                 /\ UNCHANGED attempt
            ELSE IF status = "completed"
            THEN /\ log' = [log EXCEPT ![h] = logged]
                 /\ Goto(h, "fetch")
                 /\ UNCHANGED <<attempt, ai_response>>
            ELSE IF IsFailedStatus(status)
            THEN /\ log' = [log EXCEPT ![h] = [logged EXCEPT !.returned = TRUE]]
                 /\ AfterRun(h, None)
                 /\ UNCHANGED attempt
            ELSE IF attempt[h] + 1 < max_attempts
            THEN /\ log' = [log EXCEPT ![h] = logged]
                 /\ attempt' = [attempt EXCEPT ![h] = @ + 1]
                 /\ UNCHANGED <<pc, response, ai_response>>
            ELSE /\ log' = [log EXCEPT ![h] = [logged EXCEPT !.returned = TRUE]]
                 /\ attempt' = [attempt EXCEPT ![h] = @ + 1]
                 /\ AfterRun(h, None)
    /\ UNCHANGED <<verify, handed, threads, next_id, created, request, queue, phone_id,
                   message_text, thread_id>>

\* run_assistant: GET .../messages after status "completed"
run_assistant_fetch(h) ==
    /\ pc[h] = "fetch"
    /\ \E outcome \in HttpOutcomes, messages \in ResultLists :
        /\ outcome # "ok" => messages = <<>>
        /\ log' = [log EXCEPT ![h] =
                      [@ EXCEPT !.calls.fetch = @ + 1,
                                !.fetch = outcome,
                                !.fetched_from = thread_id[h],
                                !.listed = IF outcome # "ok" THEN "none"
                                           ELSE IF Len(messages) = 0 THEN "empty"
                                           ELSE "nonempty",
                                !.first = IF outcome = "ok" /\ Len(messages) > 0
                                          THEN Some(Head(messages)) ELSE None,
                                !.returned = TRUE]]
        /\ AfterRun(h, IF outcome = "ok" THEN FirstText(messages) ELSE None)
    /\ UNCHANGED <<verify, handed, threads, next_id, created, request, queue, phone_id,
                   message_text, thread_id, attempt>>

\* A process_message that calls send_message again when it reported failure.
AfterSend_retry(h, outcome) ==
    IF outcome = "ok" THEN Return(h, queue[h]) ELSE Goto(h, "send")

\* process_message after send_message returned: `success` is logged either
\* way and the function ends.
AfterSend(h, outcome) == Return(h, queue[h])

\* send_message, called by process_message with the result of run_assistant
send_message(h) ==
    /\ pc[h] = "send"
    /\ \E outcome \in HttpOutcomes :
        /\ log' = [log EXCEPT ![h] =
                      [@ EXCEPT !.calls.send = @ + 1,
                                !.send = outcome,
                                !.sent = Append(@, SendRequest(phone_id[h], ai_response[h]))]]
        /\ AfterSend(h, outcome)
    /\ UNCHANGED <<verify, handed, threads, next_id, created, request, queue, phone_id,
                   message_text, thread_id, attempt, ai_response>>

\* Config.VERIFY_TOKEN (its default)
VERIFY_TOKEN == "12345"

\* The query arguments of a GET /webhook request: request.args.get answers
\* None for an absent argument.
Modes == {None, Some("subscribe"), Some("unsubscribe")}
Tokens == {None, Some(VERIFY_TOKEN), Some("54321")}
Challenges == {None, Some(""), Some("1158201444")}

\* A verify_webhook that accepts when either argument matches.
VerifyAccepts_either(mode, token) ==
    mode = Some("subscribe") \/ token = Some(VERIFY_TOKEN)

\* verify_webhook: `mode == 'subscribe' and token == Config.VERIFY_TOKEN`
VerifyAccepts(mode, token) ==
    mode = Some("subscribe") /\ token = Some(VERIFY_TOKEN)

\* verify_webhook: `return challenge`. A string is the body of a 200
\* response; None is not a response, which the framework answers with 500.
ViewResponse(rv) ==
    IF rv = None
    THEN [status |-> 500, body |-> "Internal Server Error"]
    ELSE [status |-> 200, body |-> rv[1]]

\* verify_webhook: `return 'Forbidden', 403`
ForbiddenResponse == [status |-> 403, body |-> "Forbidden"]

\* GET /webhook
verify_webhook ==
    /\ \E mode \in Modes, token \in Tokens, challenge \in Challenges :
        verify' = [mode |-> mode, token |-> token, challenge |-> challenge,
                   response |-> IF VerifyAccepts(mode, token)
                                THEN ViewResponse(challenge)
                                ELSE ForbiddenResponse]
    /\ UNCHANGED <<threads, next_id, created, pc, request, queue, phone_id,
                   message_text, thread_id, attempt, ai_response, response, log,
                   handed>>

Next ==
    \E h \in Handlers :
        \/ handle_webhook(h)
        \/ process_message(h)
        \/ get_or_create_thread(h)
        \/ add_message_to_thread(h)
        \/ run_assistant_start(h)
        \/ run_assistant_poll(h)
        \/ run_assistant_fetch(h)
        \/ send_message(h)

Spec == Init /\ [][Next]_vars

\* The same program when the calls of get_or_create_thread do not overlap:
\* no call starts while the create call of another handler is in flight.
CreateInFlight(h) == \E g \in Handlers \ {h} : pc[g] = "create"

CallsGetOrCreate(h) ==
    LET m == Head(queue[h]).message
    IN  /\ pc[h] = "loop"
        /\ ~MessageRaises(m)
        /\ ~NoSender(PhoneId(m))
        /\ ~ContactsRaise(Head(queue[h]).contacts, PhoneId(m))

SeqNext ==
    \E h \in Handlers :
        \/ handle_webhook(h)
        \/ (CallsGetOrCreate(h) => ~CreateInFlight(h)) /\ process_message(h)
        \/ get_or_create_thread(h)
        \/ add_message_to_thread(h)
        \/ run_assistant_start(h)
        \/ run_assistant_poll(h)
        \/ run_assistant_fetch(h)
        \/ send_message(h)

SeqSpec == Init /\ [][SeqNext]_vars

\* The program serving GET /webhook requests next to the POST /webhook
\* requests of one handler.
GetNext ==
    \/ verify_webhook
    \/ handle_webhook(1)
    \/ process_message(1)
    \/ get_or_create_thread(1)
    \/ add_message_to_thread(1)
    \/ run_assistant_start(1)
    \/ run_assistant_poll(1)
    \/ run_assistant_fetch(1)
    \/ send_message(1)

GetSpec == Init /\ [][GetNext]_vars

\* ------------------------------------------------------------------ claims
\* Steps of handler h, recognised by what they change.
ProcessStep(h) == pc[h] = "loop" /\ queue'[h] # queue[h]
CreateStep(h) == pc[h] = "create" /\ log'[h] # log[h]
\* get_or_create_thread returns a handle to process_message in this step.
ResolveStep(h) == (ProcessStep(h) \/ CreateStep(h)) /\ pc'[h] = "append"

\* C1: when the calls of get_or_create_thread do not overlap, the first call
\* that succeeds for a user issues exactly one create request and every later
\* call for that user issues none and returns the handle of the first one.
C1_FirstCreatesLaterReuse ==
    [][\A h \in Handlers :
        /\ ResolveStep(h) =>
            LET user == phone_id'[h]
            IN  IF created[user] = {}
                THEN /\ log'[h].calls.create = 1
                     /\ created'[user] = {thread_id'[h]}
                ELSE /\ log'[h].calls.create = 0
                     /\ created'[user] = created[user]
                     /\ created[user] = {thread_id'[h]}
        /\ (ProcessStep(h) /\ pc'[h] = "create") => created[phone_id'[h]] = {}
      ]_vars

\* C1 witness: a later call has returned the handle created by an earlier one
\* without a create request.
C1_Witness ==
    \E h \in Handlers :
        /\ log[h].resolve = "hit"
        /\ log[h].calls.create = 0
        /\ created[phone_id[h]] = {thread_id[h]}
        /\ pc[h] = "append"

\* C2: once threads[user_id] is set, its value never changes and the entry is
\* never removed, whatever the interleaving of the handlers.
C2_AppendOnly ==
    [][\A k \in Keys : threads[k] # NoThread => threads'[k] = threads[k]]_vars

\* C3 as stated: when the create call fails, the failure is raised into the
\* caller, the dict is left unchanged with no entry for the user, and the next
\* call of get_or_create_thread for that user issues a create request again.
C3_CreateFailure ==
    [][\A h \in Handlers :
        /\ (CreateStep(h) /\ log'[h].resolve # "ok") =>
              /\ threads' = threads
              /\ threads'[phone_id[h]] = NoThread
              /\ log'[h].raised = "get_or_create_thread"
              /\ thread_id'[h] = NoThread
              /\ pc'[h] \in {"loop", "done"}
        /\ (ProcessStep(h) /\ CallsGetOrCreate(h) /\ threads[phone_id'[h]] = NoThread) =>
              pc'[h] = "create"
        /\ CreateStep(h) => log'[h].calls.create = log[h].calls.create + 1
      ]_vars

\* C3: when the create call fails, the failure is raised into the caller and
\* the failing call stores nothing: the dict is left as it was, so the user has
\* an entry afterwards only if an overlapping call stored one. The next call
\* of get_or_create_thread for that user issues a create request again when
\* the dict still has no entry for the user, and returns the stored handle
\* without a create request when it has one.
C3_FailedCreateStoresNothing ==
    [][\A h \in Handlers :
        /\ (CreateStep(h) /\ log'[h].resolve # "ok") =>
              /\ threads' = threads
              /\ created' = created
              /\ log'[h].raised = "get_or_create_thread"
              /\ thread_id'[h] = NoThread
              /\ pc'[h] \in {"loop", "done"}
        /\ (ProcessStep(h) /\ CallsGetOrCreate(h)) =>
              IF threads[phone_id'[h]] = NoThread
              THEN pc'[h] = "create"
              ELSE /\ pc'[h] = "append"
                   /\ thread_id'[h] = threads[phone_id'[h]]
                   /\ log'[h].calls.create = 0
        /\ CreateStep(h) => log'[h].calls.create = log[h].calls.create + 1
      ]_vars

\* C3 witness: the only request served so far carried two messages of one
\* sender; the call for the second one missed and created the thread, so the
\* create request of the call for the first one had failed and stored nothing.
C3_Witness ==
    \E h \in Handlers :
        /\ \A g \in Handlers \ {h} : pc[g] = "idle"
        /\ Len(handed[h]) = 2
        /\ PhoneId(handed[h][1]) = phone_id[h]
        /\ PhoneId(handed[h][2]) = phone_id[h]
        /\ log[h].calls.create = 1
        /\ log[h].resolve = "ok"
        /\ created[phone_id[h]] = {thread_id[h]}
        /\ threads[phone_id[h]] = thread_id[h]

\* C4: one run_assistant call issues at most 10 status checks; when none of
\* the first 10 statuses returned is terminal it has issued exactly 10 checks,
\* issues no further check and no message-list fetch, and returns no result.
C4_PollingBudget ==
    \A h \in Handlers :
        /\ log[h].calls.check <= 10
        /\ (/\ log[h].calls.check >= 10
            /\ log[h].term_at = 0
            /\ log[h].status # "error") =>
              /\ log[h].calls.check = 10
              /\ pc[h] \notin {"poll", "fetch", "send"}
              /\ log[h].returned
              /\ ai_response[h] = None
              /\ log[h].calls.fetch = 0

\* C4 witness: ten status checks were answered with a non-terminal status and
\* run_assistant has returned no result.
C4_Witness ==
    \E h \in Handlers :
        /\ log[h].calls.check = 10
        /\ log[h].term_at = 0
        /\ log[h].status \in {"queued", "in_progress"}
        /\ log[h].returned
        /\ ai_response[h] = None

\* C5: run_assistant stops polling at the first terminal status.  When the
\* k-th check is the first answered "completed", k checks and one
\* message-list fetch are issued and the result is the text of the first item
\* of the list, or none when the list is empty; when it is the first answered
\* failed, cancelled or expired, k checks and no fetch are issued and the
\* result is none.
C5_StopsAtFirstTerminal ==
    \A h \in Handlers :
        log[h].term_at > 0 =>
            /\ log[h].calls.check = log[h].term_at
            /\ log[h].term_at <= 10
            /\ log[h].status \in {"completed", "failed", "cancelled", "expired"}
            /\ log[h].status = "completed" =>
                  \/ pc[h] = "fetch" /\ log[h].calls.fetch = 0 /\ ~log[h].returned
                  \/ /\ log[h].returned
                     /\ log[h].calls.fetch = 1
                     /\ log[h].listed = "empty" => ai_response[h] = None
                     /\ log[h].listed = "nonempty" =>
                           ai_response[h] = log[h].first /\ log[h].first # None
            /\ log[h].status # "completed" =>
                  /\ log[h].returned
                  /\ log[h].calls.fetch = 0
                  /\ ai_response[h] = None
                  /\ pc[h] \in {"loop", "done"}

\* C5 witness: one run completed at its third check and returned the text of
\* the first item of a fetched list, another run ended at its second check
\* with a failure status.
C5_Witness ==
    \E g, h \in Handlers :
        /\ log[g].term_at = 3
        /\ log[g].status = "completed"
        /\ log[g].calls.check = 3
        /\ log[g].calls.fetch = 1
        /\ ai_response[g] = Some("Hi there")
        /\ log[h].term_at = 2
        /\ log[h].status = "expired"
        /\ log[h].returned

\* C6: when the message-append call fails, process_message issues no
\* job-start call, no status check, no message-list fetch and no send.
C6_AppendFailureAborts ==
    \A h \in Handlers :
        log[h].append = "error" =>
            /\ log[h].calls.run = 0
            /\ log[h].calls.check = 0
            /\ log[h].calls.fetch = 0
            /\ log[h].calls.send = 0
            /\ pc[h] \in {"loop", "done"}

\* C6 witness: an append call has failed.
C6_Witness ==
    \E h \in Handlers : log[h].append = "error" /\ log[h].calls.append = 1

\* C7: a message entry whose sender id is missing or empty causes no lookup
\* and no create, no append, no job start and no send, and leaves the dict
\* unchanged.
C7_NoSenderNoCalls ==
    [][\A h \in Handlers :
        LET m == Head(queue[h]).message
        IN  (/\ ProcessStep(h)
             /\ IsDict(m)
             /\ ("from" \notin DOMAIN m \/ m.from = "")) =>
              /\ threads' = threads
              /\ created' = created
              /\ log'[h].calls = NoCalls
              /\ log'[h].resolve = "none"
              /\ thread_id'[h] = NoThread
              /\ pc'[h] \in {"loop", "done"}
      ]_vars

\* C7 witness: a message without sender id and one with an empty sender id
\* have been handed to process_message.
C7_Witness ==
    \E h \in Handlers :
        /\ phone_id[h] = Some("")
        /\ Len(queue[h]) = 1
        /\ log[h] = FreshLog

\* C8: for a notification carrying one text message from sender s, when the
\* handle is resolved, the append succeeds and the job completes with the
\* non-empty text r, exactly one send-message call is issued, to s with body r.
C8_ReplyToSender ==
    \A h \in Handlers : \A s \in Users : \A r \in Texts \ {""} :
        (/\ request[h] = [kind |-> "json", data |-> Notification(ExpectedObject, <<Msg(s)>>)]
         /\ pc[h] = "done"
         /\ log[h].resolve \in {"hit", "ok"}
         /\ log[h].append = "ok"
         /\ log[h].status = "completed"
         /\ log[h].first = Some(r)) =>
            /\ log[h].calls.send = 1
            /\ log[h].sent = <<[to |-> Some(s), body |-> Some(r)]>>

\* C8 witness: the one message of a notification from "111" was answered
\* with the text the job completed with.
C8_Witness ==
    \E h \in Handlers :
        /\ request[h] = [kind |-> "json", data |-> Notification(ExpectedObject, <<Msg("111")>>)]
        /\ pc[h] = "done"
        /\ log[h].status = "completed"
        /\ log[h].first = Some("Hi there")
        /\ log[h].sent = <<[to |-> Some("111"), body |-> Some("Hi there")]>>

\* C9: a send-message call is issued only after the handle was resolved, the
\* append and the job start succeeded and a status check returned "completed"
\* with a result text; what is sent is that text and nothing else.
C9_SendOnlyResult ==
    \A h \in Handlers :
        /\ log[h].calls.send <= 1
        /\ Len(log[h].sent) = log[h].calls.send
        /\ (pc[h] = "send" \/ log[h].calls.send > 0) =>
              /\ log[h].resolve \in {"hit", "ok"}
              /\ thread_id[h] # NoThread
              /\ log[h].append = "ok"
              /\ log[h].run = "ok"
              /\ log[h].status = "completed"
              /\ log[h].fetch = "ok"
              /\ log[h].first # None
              /\ ai_response[h] = log[h].first
              /\ \A i \in 1..Len(log[h].sent) : log[h].sent[i].body = log[h].first

\* C9 witness: a reply has been sent.
C9_Witness ==
    \E h \in Handlers : log[h].calls.send = 1 /\ log[h].sent[1].body = Some("Hi there")

\* The steps handler h can take.
HandlerNext(h) ==
    \/ handle_webhook(h)
    \/ process_message(h)
    \/ get_or_create_thread(h)
    \/ add_message_to_thread(h)
    \/ run_assistant_start(h)
    \/ run_assistant_poll(h)
    \/ run_assistant_fetch(h)
    \/ send_message(h)

\* C10: POST /webhook answers 200 "OK" for every payload and every outcome of
\* the outbound calls: a handler that has answered has answered 200 "OK", and
\* a handler that has not can take a step.
C10_Always200 ==
    \A h \in Handlers :
        /\ pc[h] = "done" => response[h] = [status |-> 200, body |-> "OK"]
        /\ pc[h] # "done" => response[h] = NoResponse /\ ENABLED HandlerNext(h)

\* C10 witness: a request whose body could not be parsed and a request in
\* which get_or_create_thread raised have both been answered.
C10_Witness ==
    \E g, h \in Handlers :
        /\ pc[g] = "done"
        /\ request[g].kind = "invalid"
        /\ pc[h] = "done"
        /\ log[h].raised = "get_or_create_thread"
        /\ queue[h] # <<>>
        /\ Head(queue[h]).op = "raise"

\* A request body that is empty, or whose top-level 'object' field is absent
\* or differs from the expected literal.
WrongObject(body) ==
    \/ body.kind = "null"
    \/ /\ body.kind = "json"
       /\ \/ "object" \notin DOMAIN body.data
          \/ body.data.object # ExpectedObject

\* C11: a notification whose 'object' field is absent or differs from
\* 'whatsapp_business_account', or whose body is empty, is answered 200 and
\* causes no outbound call and no change of the dict, whatever it contains.
C11_WrongObjectIgnored ==
    [][\A h \in Handlers :
        (pc[h] = "idle" /\ pc'[h] # "idle" /\ WrongObject(request'[h])) =>
            /\ pc'[h] = "done"
            /\ response'[h] = [status |-> 200, body |-> "OK"]
            /\ queue'[h] = <<>>
            /\ log'[h] = FreshLog
            /\ threads' = threads
            /\ created' = created
      ]_vars

\* C11 witness: a notification of another object type that carries a message
\* has been answered without a call.
C11_Witness ==
    \E h \in Handlers :
        /\ request[h] = [kind |-> "json", data |-> Notification("page", <<Msg("111")>>)]
        /\ pc[h] = "done"
        /\ response[h] = [status |-> 200, body |-> "OK"]
        /\ log[h] = FreshLog

\* C12: a GET /webhook with hub.mode 'subscribe' and hub.verify_token equal
\* to the configured secret is answered 200 with the hub.challenge value as
\* the body, for every challenge value, an absent or empty one included.
C12_ChallengeEchoed ==
    VerifyAccepts(verify.mode, verify.token) =>
        /\ verify.response.status = 200
        /\ verify.response.body =
               (IF verify.challenge = None THEN "" ELSE verify.challenge[1])

\* C13: a GET /webhook whose hub.mode is absent or not 'subscribe', or whose
\* hub.verify_token is absent or not the configured secret, is answered 403
\* for every hub.challenge, changes no state and issues no outbound call.
C13_MismatchForbidden ==
    [][(/\ verify' # verify
        /\ \/ verify'.mode # Some("subscribe")
           \/ verify'.token # Some(VERIFY_TOKEN)) =>
            /\ verify'.challenge \in Challenges
            /\ verify'.response.status = 403
            /\ UNCHANGED <<threads, next_id, created, pc, request, queue,
                           phone_id, message_text, thread_id, attempt,
                           ai_response, response, log>>
      ]_vars

\* C13 witness: a request with the right mode, a wrong token and a challenge
\* was rejected while a thread was stored and a message was being processed.
C13_Witness ==
    /\ verify.mode = Some("subscribe")
    /\ verify.token = Some("54321")
    /\ verify.challenge = Some("1158201444")
    /\ verify.response = ForbiddenResponse
    /\ threads[Some("111")] # NoThread
    /\ pc[1] = "append"

\* C14: two first messages of one user handled concurrently can both miss the
\* dict and both create a thread. The two handles differ, each store replaces
\* whatever entry the user has, so the dict ends with the handle stored last,
\* while the handler whose handle was overwritten goes on with it. The
\* interleaving itself is the state of C14_Witness.
C14_LastWriteWins ==
    [][\A h \in Handlers :
        (CreateStep(h) /\ log'[h].resolve = "ok") =>
            /\ thread_id'[h] \notin created[phone_id[h]]
            /\ threads'[phone_id[h]] = thread_id'[h]
            /\ \A g \in Handlers \ {h} : thread_id'[g] = thread_id[g]
      ]_vars

\* C14 witness: both handlers missed and created for user "111"; the dict
\* holds the handle of g, stored last, and the message of h was appended to
\* the handle that was overwritten.
C14_Witness ==
    \E h, g \in Handlers :
        /\ h # g
        /\ phone_id[h] = Some("111") /\ phone_id[g] = Some("111")
        /\ log[h].resolve = "ok" /\ log[g].resolve = "ok"
        /\ log[h].calls.create = 1 /\ log[g].calls.create = 1
        /\ created[Some("111")] = {thread_id[h], thread_id[g]}
        /\ thread_id[h] # thread_id[g]
        /\ threads[Some("111")] = thread_id[g]
        /\ log[h].append = "ok"
        /\ log[h].appended = <<AppendRequest(thread_id[h], "Hello")>>

\* The payload as a reader walks it: the entries up to the first one that is
\* malformed (not an object, its changes not iterable, or holding a malformed
\* change), and of each entry the changes before its first malformed one. A
\* change is malformed when it is not an object, or when its field is
\* 'messages', its value does not contain 'statuses', and the value is not an
\* object or its messages are not iterable.
RECURSIVE Flatten(_)
Flatten(seqs) == IF seqs = <<>> THEN <<>> ELSE Head(seqs) \o Flatten(Tail(seqs))

IsMessagesChange(change) == Get(change, "field", "") = "messages"
IsStatusUpdate(change) == "statuses" \in DOMAIN Get(change, "value", EmptyDict)

MalformedChange(change) ==
    \/ ~IsDict(change)
    \/ /\ IsMessagesChange(change)
       /\ ~IsStatusUpdate(change)
       /\ \/ ~IsDict(Get(change, "value", EmptyDict))
          \/ ~Iterable(Get(Get(change, "value", EmptyDict), "messages", List(<<>>)))

WellFormed(seq) ==
    LET bad == {i \in 1..Len(seq) : MalformedChange(seq[i])}
    IN  IF bad = {} THEN seq ELSE SubSeq(seq, 1, Min(bad) - 1)

ChangesOf(entry) ==
    LET changes == Get(entry, "changes", List(<<>>))
    IN  IF IsDict(entry) /\ Iterable(changes) THEN Items(changes) ELSE <<>>

Malformed(entry) ==
    \/ ~IsDict(entry)
    \/ ~Iterable(Get(entry, "changes", List(<<>>)))
    \/ WellFormed(ChangesOf(entry)) # ChangesOf(entry)

WalkedChanges(data) ==
    LET listed == Get(data, "entry", List(<<>>))
        entries == IF Iterable(listed) THEN Items(listed) ELSE <<>>
        bad == {i \in 1..Len(entries) : Malformed(entries[i])}
        last == IF bad = {} THEN Len(entries) ELSE Min(bad)
    IN  Flatten([i \in 1..last |-> WellFormed(ChangesOf(entries[i]))])

MessagesUnder(change) ==
    LET msgs == Get(Get(change, "value", EmptyDict), "messages", List(<<>>))
    IN  IF Iterable(msgs) THEN Items(msgs) ELSE <<>>

\* The message entries under the walked changes whose field is 'messages'.
MessageEntries(data) ==
    LET cs == WalkedChanges(data)
    IN  Flatten([i \in 1..Len(cs) |->
                    IF IsMessagesChange(cs[i]) THEN MessagesUnder(cs[i]) ELSE <<>>])

\* The same without the changes that carry a status update.
DeliveredEntries(data) ==
    LET cs == WalkedChanges(data)
    IN  Flatten([i \in 1..Len(cs) |->
                    IF IsMessagesChange(cs[i]) /\ ~IsStatusUpdate(cs[i])
                    THEN MessagesUnder(cs[i]) ELSE <<>>])

IsPrefix(s, t) == Len(s) <= Len(t) /\ s = SubSeq(t, 1, Len(s))

Accepted(h) == pc[h] # "idle" /\ request[h].kind = "json" /\ ~WrongObject(request[h])

\* C15 as stated: every message entry under any change whose field is
\* 'messages' is handed to process_message exactly once, in payload order.
C15_EveryMessageEntry ==
    \A h \in Handlers :
        (Accepted(h) /\ pc[h] = "done") =>
            handed[h] = MessageEntries(request[h].data)

\* C15: for an accepted notification, the message entries under the changes
\* whose field is 'messages' and whose value does not contain 'statuses' are
\* handed to process_message exactly once, in payload order (entries, then
\* changes, then messages), as far as the payload is well formed; a change
\* whose value contains 'statuses' hands nothing over, and no call is made
\* for a request that handed no message over.
C15_DeliveredInOrder ==
    \A h \in Handlers :
        /\ Accepted(h) =>
              LET delivered == DeliveredEntries(request[h].data)
              IN  /\ IsPrefix(handed[h], delivered)
                  /\ pc[h] = "done" => handed[h] = delivered
        /\ ~Accepted(h) => handed[h] = <<>>
        /\ handed[h] = <<>> => log[h] = FreshLog

\* C15 witness: a notification with a status-update change that also carries
\* a message, and a malformed entry, has been walked: the two messages of
\* sender "111" were handed over, those of "222" were not.
C15_Witness ==
    \E h \in Handlers :
        /\ Accepted(h) /\ pc[h] = "done"
        /\ \E c \in {WalkedChanges(request[h].data)[i] :
                        i \in 1..Len(WalkedChanges(request[h].data))} :
              IsMessagesChange(c) /\ IsStatusUpdate(c) /\ MessagesUnder(c) # <<>>
        /\ handed[h] = <<Msg("111"), Msg("111")>>
        /\ Len(MessageEntries(request[h].data)) = 3

\* C16: after a successful append, a send-message call is issued if and only
\* if run_assistant returned a result: exactly one send for a result text,
\* whatever its content, the empty string included, and none for no result.
C16_SendIffResult ==
    \A h \in Handlers :
        (log[h].append = "ok" /\ log[h].returned /\ pc[h] # "send") =>
            /\ ai_response[h] # None => log[h].calls.send = 1
            /\ ai_response[h] = None => log[h].calls.send = 0

\* C17: a failed send-message call is not retried and has no upstream effect:
\* send_message reports failure without raising, one send was attempted for
\* the message, the dict is unchanged, the next message of the notification
\* is processed, and the request is answered 200 when its walk ends.
C17_FailedSendNoEffect ==
    [][\A h \in Handlers :
        (pc[h] = "send" /\ log'[h] # log[h] /\ log'[h].send = "error") =>
            /\ log'[h].calls.send = 1
            /\ log'[h].raised = "none"
            /\ pc'[h] # "send"
            /\ threads' = threads
            /\ created' = created
            /\ queue'[h] = queue[h]
            /\ pc'[h] = IF queue[h] # <<>> /\ Head(queue[h]).op = "msg"
                        THEN "loop" ELSE "done"
            /\ pc'[h] = "done" => response'[h] = [status |-> 200, body |-> "OK"]
      ]_vars

\* C17 witness: the send of a reply to "111" has failed, the entry of "111"
\* is still the thread of this message, and the next message is up.
C17_Witness ==
    \E h \in Handlers :
        /\ log[h].send = "error"
        /\ log[h].calls.send = 1
        /\ phone_id[h] = Some("111")
        /\ threads[Some("111")] = thread_id[h]
        /\ pc[h] = "loop"
        /\ queue[h] # <<>>

\* A failure is on record for the invocation: an exception, or a remote call
\* that failed, or a job that ended without a result.
Failure(l) ==
    \/ l.raised # "none"
    \/ l.resolve \in {"network_error", "http_error", "no_id"}
    \/ l.append = "error"
    \/ l.run = "error"
    \/ l.status \in {"error", "failed", "cancelled", "expired"}
    \/ l.fetch = "error"
    \/ l.send = "error"

MessageLeft(q) == q # <<>> /\ Head(q).op = "msg"

\* C18: process_message never raises: whatever call failed while a message
\* was processed, control is back in the loops of handle_webhook, the later
\* message entries are still to be processed, and the request ends only when
\* no message entry is left.
C18_FailureIsContained ==
    [][\A h \in Handlers :
        /\ (pc[h] \notin {"idle", "done"} /\ log'[h] # log[h] /\ Failure(log'[h])) =>
              /\ pc'[h] \in {"loop", "done"}
              /\ \/ queue'[h] = queue[h]
                 \/ queue[h] # <<>> /\ queue'[h] = Tail(queue[h])
              /\ MessageLeft(queue'[h]) => pc'[h] = "loop"
        /\ pc'[h] = "done" => ~MessageLeft(queue'[h])
        /\ pc'[h] = "done" => response'[h] = [status |-> 200, body |-> "OK"]
      ]_vars

\* C18 witness: the create call for the first message of "111" failed, and
\* the second message of the notification is being processed: its own create
\* call succeeded.
C18_Witness ==
    \E h \in Handlers :
        /\ handed[h] = <<Msg("111"), Msg("111")>>
        /\ created[Some("111")] = {thread_id[h]}
        /\ next_id[h] = 1
        /\ log[h].resolve = "ok"
        /\ pc[h] = "append"

\* One handler that keeps running while each remote call returns or fails.
FairNext ==
    \/ handle_webhook(1)
    \/ process_message(1)
    \/ get_or_create_thread(1)
    \/ add_message_to_thread(1)
    \/ run_assistant_start(1)
    \/ run_assistant_poll(1)
    \/ run_assistant_fetch(1)
    \/ send_message(1)

FairSpec == Init /\ [][FairNext]_vars /\ WF_vars(FairNext)

\* Handler h is inside a process_message invocation, at a remote call.
InInvocation(h) == pc[h] \in {"create", "append", "run", "poll", "fetch", "send"}

Stages == <<"create", "append", "run", "check", "fetch", "send">>

\* The calls on record respect the stages: each stage within its number of
\* calls, and no call of a stage unless the stage before it succeeded.
StageOrder(l) ==
    /\ l.calls.create <= 1
    /\ l.calls.append <= 1
    /\ l.calls.run <= 1
    /\ l.calls.check <= 10
    /\ l.calls.fetch <= 1
    /\ l.calls.send <= 1
    /\ l.calls.create > 0 => l.resolve # "hit"
    /\ l.calls.append > 0 => l.resolve \in {"hit", "ok"}
    /\ l.calls.run > 0 => l.calls.append > 0 /\ l.append = "ok"
    /\ l.calls.check > 0 => l.calls.run > 0 /\ l.run = "ok"
    /\ l.calls.fetch > 0 => l.calls.check > 0 /\ l.status = "completed"
    /\ l.calls.send > 0 => l.calls.fetch > 0 /\ l.fetch = "ok" /\ l.first # None

\* A call of a stage is issued only while no call of a later stage is on
\* record, and a step issues one call at most.
CallsInOrder(h) ==
    \A i \in 1..Len(Stages) :
        log'[h].calls[Stages[i]] > log[h].calls[Stages[i]] =>
            /\ log'[h].calls[Stages[i]] = log[h].calls[Stages[i]] + 1
            /\ \A j \in 1..Len(Stages) :
                  /\ j > i => log'[h].calls[Stages[j]] = 0
                  /\ j < i => log'[h].calls[Stages[j]] = log[h].calls[Stages[j]]

\* C19: every process_message invocation eventually finishes, and its calls
\* occur in the order create (at most one), append (at most one), job start
\* (at most one), status checks (0 to 10), message list (at most one), send
\* (at most one), none of a later stage unless the stage before succeeded.
C19_FinishesInOrder ==
    /\ [](\A h \in Handlers : StageOrder(log[h]))
    /\ [][\A h \in Handlers : CallsInOrder(h)]_vars
    /\ \A h \in Handlers : InInvocation(h) ~> ~InInvocation(h)

\* C19 witness: an invocation has finished after a call of every stage, the
\* tenth status check being the one that answered "completed".
C19_Witness ==
    \E h \in Handlers :
        /\ log[h].calls = [create |-> 1, append |-> 1, run |-> 1, check |-> 10,
                           fetch |-> 1, send |-> 1]
        /\ ~InInvocation(h)

\* C20: under any interleaving of the handlers, every append of a message
\* from u targets a thread created while a message from u was handled, and
\* every send-message call goes to the sender u of the message, with a text
\* fetched from such a thread; no thread belongs to two users.
C20_UserIsolation ==
    /\ \A h \in Handlers :
          LET u == phone_id[h]
              l == log[h]
          IN  /\ \A i \in 1..Len(l.appended) :
                    /\ l.appended[i].thread \in created[u]
                    /\ l.appended[i].content = message_text[h]
              /\ l.calls.fetch > 0 => l.fetched_from \in created[u]
              /\ \A i \in 1..Len(l.sent) :
                    /\ l.sent[i].to = u
                    /\ l.sent[i].body = l.first
                    /\ l.fetch = "ok"
                    /\ l.fetched_from \in created[u]
    /\ \A u, v \in Keys : u # v => created[u] \cap created[v] = {}

\* C20 witness: while a message from "222" is being processed on a thread of
\* its own, a reply fetched from the thread of "111" is sent to "111".
C20_Witness ==
    \E h, g \in Handlers :
        /\ phone_id[h] = Some("111") /\ phone_id[g] = Some("222")
        /\ log[h].calls.send = 1
        /\ log[h].sent[1].to = Some("111")
        /\ log[g].calls.append = 1
        /\ pc[g] = "poll"
        /\ thread_id[h] # thread_id[g]

====
